---- MODULE Spec2Model ----
(***************************************************************************)
(* Model of the AMQP 1.0 client core of azure-uamqp-python:                *)
(*   - the link state machine, src/uamqp/aio/_link_async.py (class Link);  *)
(*   - the type codec,         src/uamqp/_decode.py.                       *)
(*                                                                         *)
(* The link is driven by two tasks, the caller task (attach, detach) and   *)
(* the incoming-dispatcher task (incoming Attach/Detach, session state     *)
(* notifications).  Every coroutine of Link is cut at its suspension       *)
(* points (an await on the session's outbound write, the join of the       *)
(* notification task group, the sleep(0) of _set_state); the code between  *)
(* two suspension points is one atomic action.                             *)
(***************************************************************************)
EXTENDS Integers, Sequences, FiniteSets, TLC

\* ------------------------------------------------------------------ bounds
\* Number of distinct delivery tags the Sender may have pending.
MaxPending == 2
\* Number of transfers the Sender may make after an Attach reset the count.
MaxTransfers == 1
\* Remote handles the peer may announce are 1..MaxHandle.
MaxHandle == 2
\* DEFAULT_LINK_CREDIT is imported from the package's constants; the model
\* takes a small replenishment quantum for it.
DEFAULT_LINK_CREDIT == 2

\* ------------------------------------------------------- program constants
\* The link's own handle (constructor argument `handle`).
LocalHandle == 0
\* The non-default initial_delivery_count used for a Sender.
SenderInitialCount == 7
\* The peer's max_message_size when it announces one.
PeerMaxMessageSize == 65536

\* --------------------------------------------------------------- constants
DETACHED == "DETACHED"
ATTACH_SENT == "ATTACH_SENT"
ATTACH_RCVD == "ATTACH_RCVD"
ATTACHED == "ATTACHED"
ERROR == "ERROR"
LinkState == {DETACHED, ATTACH_SENT, ATTACH_RCVD, ATTACHED, ERROR}

UNMAPPED == "UNMAPPED"
MAPPED == "MAPPED"
DISCARDING == "DISCARDING"
SessionState == {UNMAPPED, MAPPED, DISCARDING}

Sender == "Sender"
Receiver == "Receiver"
Role == {Sender, Receiver}

NotDelivered == "NotDelivered"

\* Python's None is the empty tuple, a present value v is <<v>>.
None == <<>>
Some(v) == <<v>>

Tasks == {"caller", "dispatcher"}
Tags == 1..MaxPending
Handles == 1..MaxHandle

\* ------------------------------------------------------------------- state
VARIABLES
    state,                    \* Link.state
    is_closed,                \* Link._is_closed
    pending,                  \* keys of Link._pending_deliveries
    role,                     \* Link.role
    initial_delivery_count,   \* Link.initial_delivery_count
    delivery_count,           \* Link.delivery_count
    remote_handle,            \* Link.remote_handle
    remote_max_message_size,  \* Link.remote_max_message_size
    offered_capabilities,     \* Link.offered_capabilities
    properties,               \* Link.properties
    session_state,            \* Link._session.state
    link_credit,              \* Link.link_credit
    current_link_credit,      \* Link.current_link_credit
    interleaved,              \* whether the two tasks may overlap
    pc,                       \* per task: position in its coroutine
    op,                       \* per task: the operation running, its arguments
    pre,                      \* per task: the link as the operation found it
    sent,                     \* per task: frames the operation handed to the session
    settled,                  \* per task: on_settled notifications it dispatched
    result,                   \* per task: "none", "ok", "raise" or "cancelled"
    buffer,                   \* codec: the byte window given to the decoder
    decoded                   \* codec: what the decoder returned for it

linkVars == <<state, is_closed, pending, role, initial_delivery_count,
              delivery_count, remote_handle, remote_max_message_size,
              offered_capabilities, properties, session_state>>
creditVars == <<link_credit, current_link_credit>>
taskVars == <<pc, op, pre, sent, settled, result>>
codecVars == <<buffer, decoded>>
vars == <<linkVars, creditVars, interleaved, taskVars, codecVars>>

\* --------------------------------------------------------------- frames
\* AttachFrame built by _outgoing_attach; only the fields that depend on the
\* link's state are kept.
AttachFrame(idc, offered, desired) ==
    [type |-> "Attach", handle |-> LocalHandle, closed |-> FALSE, error |-> FALSE,
     initial_delivery_count |-> idc, offered |-> offered, desired |-> desired]

\* DetachFrame(handle, closed, error); error is kept as present/absent.
DetachFrame(closed, error) ==
    [type |-> "Detach", handle |-> LocalHandle, closed |-> closed, error |-> error,
     initial_delivery_count |-> None, offered |-> None, desired |-> FALSE]

\* The flow_frame dictionary built by _outgoing_flow; the entries that are
\* always None are left out.
FlowFrame(dc, credit) ==
    [type |-> "Flow", handle |-> LocalHandle, delivery_count |-> dc,
     link_credit |-> credit]

\* The arguments of an operation: the same record shape for all of them.
NoOp ==
    [name |-> "none", close |-> FALSE, error |-> FALSE, valid |-> FALSE,
     handle |-> None, max_message_size |-> None, offered |-> None,
     props |-> None]

\* Property dictionaries are sets of <<key, value>> pairs; the value says who
\* wrote the key.
LocalProps == Some({<<"a", "local">>, <<"k", "local">>})
PeerProps == Some({<<"k", "peer">>})

\* What the peer announces besides its handle: max_message_size and
\* offered_capabilities, both absent or both present.
PeerAttributes == {<<None, None>>, <<Some(PeerMaxMessageSize), Some("caps")>>}

\* Incoming Attach frames: source/target present or not, and the peer's
\* attributes.
IncomingAttachFrames ==
    { [NoOp EXCEPT !.name = "_incoming_attach", !.valid = v, !.handle = Some(h),
                   !.max_message_size = a[1], !.offered = a[2], !.props = p] :
        v \in BOOLEAN, h \in Handles, a \in PeerAttributes,
        p \in {None, PeerProps} }

\* Incoming Detach frames: closed flag, error present or not.
IncomingDetachFrames ==
    { [NoOp EXCEPT !.name = "_incoming_detach", !.close = c, !.error = e] :
        c \in BOOLEAN, e \in BOOLEAN }

\* The link as an operation finds it, and where each task stands then.
Snapshot ==
    [state |-> state, is_closed |-> is_closed, pending |-> pending,
     delivery_count |-> delivery_count,
     current_link_credit |-> current_link_credit,
     remote_handle |-> remote_handle,
     remote_max_message_size |-> remote_max_message_size,
     offered_capabilities |-> offered_capabilities, properties |-> properties,
     tasks |-> pc]

NoSnapshot ==
    [state |-> DETACHED, is_closed |-> FALSE, pending |-> {},
     delivery_count |-> 0, current_link_credit |-> 0,
     remote_handle |-> None,
     remote_max_message_size |-> None,
     offered_capabilities |-> None, properties |-> None,
     tasks |-> [t \in Tasks |-> "idle"]]

\* ------------------------------------------------------------ scheduling
Idle(t) == pc[t] = "idle"
AllIdle == \A t \in Tasks : Idle(t)

\* A task starts an operation when it runs none; without interleaving, when
\* no task runs one.
MayBegin(t) == Idle(t) /\ (interleaved \/ AllIdle)

\* Bookkeeping of a call: the operation, the link as found, nothing emitted.
Enter(t, o) ==
    /\ op' = [op EXCEPT ![t] = o]
    /\ pre' = [pre EXCEPT ![t] = Snapshot]

Goto(t, l) == pc' = [pc EXCEPT ![t] = l]
Returns(t, r) == result' = [result EXCEPT ![t] = r]
Emit(t, fs) == sent' = [sent EXCEPT ![t] = @ \o fs]
Notify(t, ds) ==
    settled' = [settled EXCEPT ![t] = @ \cup {<<d, NotDelivered>> : d \in ds}]


\* ------------------------------------------------------- pieces of the code
\* _set_state(new_state): the assignment; the sleep(0) after it is the
\* suspension the caller of SetState moves to.
SetState(new_state) == state' = new_state

\* The frame _outgoing_attach builds from the link as it is now.
OutgoingAttachFrame ==
    AttachFrame(IF role = Sender THEN Some(initial_delivery_count) ELSE None,
                IF state = ATTACH_RCVD THEN offered_capabilities ELSE None,
                state = DETACHED)

\* _outgoing_attach up to its await: reset delivery_count, hand the frame to
\* the session.
_outgoing_attach(t) ==
    /\ delivery_count' = initial_delivery_count
    /\ Emit(t, <<OutgoingAttachFrame>>)

\* Mutant of MarkClosed: the closed mark is forgotten.
MarkClosedForgotten(close) == is_closed

\* _outgoing_detach after its await: a closing detach marks the link closed.
MarkClosed(close) == IF close THEN TRUE ELSE is_closed

\* Mutant of NotifyPending: no delivery is notified.
NotifyPendingSkipped(t) == settled' = settled

\* _remove_pending_deliveries, first half: one on_settled(NotDelivered) task
\* per pending delivery, then the join of the task group.
NotifyPending(t) == Notify(t, pending)

\* Mutant of EmptyPending: the map is left as it is.
EmptyPendingKept == pending

\* _remove_pending_deliveries, second half: the map is replaced by {}.
EmptyPending == {}

\* attach(): the state set after the Attach was written.
AttachState == ATTACH_SENT

\* Mutant of DetachStateFromAttached: the state is left ATTACHED.
DetachStateFromAttachedKept == ATTACHED

\* detach(): the state set after the Detach was written, from ATTACHED and
\* from ATTACH_SENT / ATTACH_RCVD.
DetachStateFromAttached == ATTACH_SENT
DetachStateFromHalf == DETACHED

\* Mutant of InvalidAttachState: the state is left as it is.
InvalidAttachStateKept == state

\* _incoming_attach without source or target: the state it falls to.
InvalidAttachState == DETACHED

\* _incoming_attach: the state a valid Attach leads to; s when none.
IncomingAttachState(s) ==
    IF s = DETACHED THEN ATTACH_RCVD
    ELSE IF s = ATTACH_SENT THEN ATTACHED
    ELSE s

\* dict.update: the entries of e replace those of d with the same key.
DictUpdate(d, e) ==
    {x \in d : \A y \in e : y[1] # x[1]} \cup e

\* _incoming_attach: a non-empty local dictionary is updated with the frame's
\* properties, otherwise the frame's properties replace it.
MergedProperties(frameProps) ==
    IF properties # None /\ properties[1] # {}
    THEN Some(DictUpdate(properties[1], frameProps[1]))
    ELSE frameProps

\* dict.update(None) raises TypeError.
UpdateRaises(frameProps) ==
    properties # None /\ properties[1] # {} /\ frameProps = None

\* Mutant of ReciprocalDetach: the reply always closes.
ReciprocalDetachClosing(frame) == DetachFrame(TRUE, FALSE)

\* _incoming_detach: the reply when the link is ATTACHED mirrors `closed`.
ReciprocalDetach(frame) == DetachFrame(frame.close, FALSE)

\* Mutant of MustReattach: ATTACH_RCVD is left out.
MustReattachSentOnly(frame) ==
    /\ frame.close
    /\ ~is_closed
    /\ state = ATTACH_SENT

\* _incoming_detach: a closing detach met in a half-attached state.
MustReattach(frame) ==
    /\ frame.close
    /\ ~is_closed
    /\ state \in {ATTACH_SENT, ATTACH_RCVD}

\* _incoming_detach: the final state.
IncomingDetachState(frame) == IF frame.error THEN ERROR ELSE DETACHED

\* The link_credit keyword arguments given to the constructor: none, a
\* negative one, one.
LinkCreditArgs == {None, Some(-1), Some(1)}

\* kwargs.pop('link_credit', None) or DEFAULT_LINK_CREDIT: None and 0 are
\* falsy, every other number is taken as it is.
CreditOrDefault(arg) ==
    IF arg = None \/ arg[1] = 0 THEN DEFAULT_LINK_CREDIT ELSE arg[1]

\* Mutant of NeedsFlow: a credit of zero is not replenished.
NeedsFlowBelowZero == current_link_credit < 0

\* _evaluate_status: the test that replenishes the credit.
NeedsFlow == current_link_credit <= 0

\* Mutant of DiscardingState: the state is left as it is.
DiscardingStateKept == state

\* _on_session_state_change: the state the DISCARDING branch sets.
DiscardingState == DETACHED

\* Mutant of MappedAttaches: the closed mark is not looked at.
MappedAttachesClosedToo == state = DETACHED

\* _on_session_state_change: the guard of the MAPPED branch.
MappedAttaches == ~is_closed /\ state = DETACHED


\* ------------------------------------------------------------------- Init
InitTasks ==
    /\ pc = [t \in Tasks |-> "idle"]
    /\ op = [t \in Tasks |-> NoOp]
    /\ pre = [t \in Tasks |-> NoSnapshot]
    /\ sent = [t \in Tasks |-> <<>>]
    /\ settled = [t \in Tasks |-> {}]
    /\ result = [t \in Tasks |-> "none"]

\* Link.__init__ for the constructor arguments role, initial_delivery_count,
\* properties and link_credit (a link_credit is given to Senders that start
\* from SenderInitialCount without properties).
InitLink ==
    /\ state = DETACHED
    /\ is_closed = FALSE
    /\ pending = {}
    /\ role \in Role
    /\ initial_delivery_count \in {0, SenderInitialCount}
    /\ delivery_count = initial_delivery_count
    /\ remote_handle = None
    /\ remote_max_message_size = None
    /\ offered_capabilities = None
    /\ properties \in {None, LocalProps}
    /\ session_state = UNMAPPED
    /\ \E arg \in LinkCreditArgs :
          /\ arg # None => /\ role = Sender
                           /\ initial_delivery_count = SenderInitialCount
                           /\ properties = None
          /\ link_credit = CreditOrDefault(arg)
    /\ current_link_credit = link_credit

\* ------------------------------------------------------------ caller task
\* attach(), up to the await of the session's write of the Attach.
attach ==
    /\ MayBegin("caller")
    /\ Enter("caller", [NoOp EXCEPT !.name = "attach"])
    /\ IF is_closed
       THEN /\ Goto("caller", "done")
            /\ Returns("caller", "raise")
            /\ UNCHANGED <<delivery_count, sent>>
       ELSE /\ _outgoing_attach("caller")
            /\ Goto("caller", "attach_write")
            /\ UNCHANGED result
    /\ UNCHANGED <<state, is_closed, pending, role, initial_delivery_count,
                   remote_handle, remote_max_message_size,
                   offered_capabilities, properties, session_state,
                   interleaved, creditVars, settled, codecVars>>

\* attach() resumed after the write: _set_state(ATTACH_SENT), up to its sleep.
attach_set_state ==
    /\ pc["caller"] = "attach_write"
    /\ SetState(AttachState)
    /\ Goto("caller", "sleep")
    /\ UNCHANGED <<is_closed, pending, role, initial_delivery_count,
                   delivery_count, remote_handle, remote_max_message_size,
                   offered_capabilities, properties, session_state,
                   interleaved, creditVars,
                   op, pre, sent, settled, result, codecVars>>

\* detach(close, error), up to the join of the notification task group.
detach(close, error) ==
    /\ MayBegin("caller")
    /\ Enter("caller", [NoOp EXCEPT !.name = "detach", !.close = close,
                                    !.error = error])
    /\ IF is_closed
       THEN /\ Goto("caller", "done")
            /\ Returns("caller", "raise")
            /\ UNCHANGED settled
       ELSE /\ NotifyPending("caller")
            /\ Goto("caller", "detach_join")
            /\ UNCHANGED result
    /\ UNCHANGED <<linkVars, interleaved, creditVars, sent, codecVars>>

\* detach() after the join: the pending map is emptied, and from a state with
\* an attach outstanding the Detach is handed to the session.
detach_send ==
    /\ pc["caller"] = "detach_join"
    /\ pending' = EmptyPending
    /\ IF state \in {ATTACH_SENT, ATTACH_RCVD}
       THEN /\ Emit("caller", <<DetachFrame(op["caller"].close, op["caller"].error)>>)
            /\ Goto("caller", "detach_write_half")
            /\ UNCHANGED result
       ELSE IF state = ATTACHED
       THEN /\ Emit("caller", <<DetachFrame(op["caller"].close, op["caller"].error)>>)
            /\ Goto("caller", "detach_write_attached")
            /\ UNCHANGED result
       ELSE /\ Goto("caller", "done")
            /\ Returns("caller", "ok")
            /\ UNCHANGED sent
    /\ UNCHANGED <<state, is_closed, role, initial_delivery_count,
                   delivery_count, remote_handle, remote_max_message_size,
                   offered_capabilities, properties, session_state,
                   interleaved, creditVars, op, pre, settled, codecVars>>

\* detach() resumed after the write: the closed mark of _outgoing_detach, then
\* _set_state up to its sleep.
detach_set_state ==
    /\ pc["caller"] \in {"detach_write_half", "detach_write_attached"}
    /\ is_closed' = MarkClosed(op["caller"].close)
    /\ SetState(IF pc["caller"] = "detach_write_attached"
                THEN DetachStateFromAttached ELSE DetachStateFromHalf)
    /\ Goto("caller", "sleep")
    /\ UNCHANGED <<pending, role, initial_delivery_count,
                   delivery_count, remote_handle, remote_max_message_size,
                   offered_capabilities, properties, session_state,
                   interleaved, creditVars,
                   op, pre, sent, settled, result, codecVars>>


\* -------------------------------------------------------- dispatcher task
\* _on_session_state_change() with the session in state s, up to its first
\* suspension.
_on_session_state_change(s) ==
    /\ MayBegin("dispatcher")
    /\ session_state' = s
    /\ Enter("dispatcher", [NoOp EXCEPT !.name = "_on_session_state_change"])
    /\ IF s = MAPPED /\ MappedAttaches
       THEN /\ _outgoing_attach("dispatcher")
            /\ Goto("dispatcher", "mapped_write")
            /\ UNCHANGED <<settled, result>>
       ELSE IF s = DISCARDING
       THEN /\ NotifyPending("dispatcher")
            /\ Goto("dispatcher", "discarding_join")
            /\ UNCHANGED <<delivery_count, sent, result>>
       ELSE /\ Goto("dispatcher", "done")
            /\ Returns("dispatcher", "ok")
            /\ UNCHANGED <<delivery_count, sent, settled>>
    /\ UNCHANGED <<state, is_closed, pending, role, initial_delivery_count,
                   remote_handle, remote_max_message_size,
                   offered_capabilities, properties, interleaved, creditVars,
                   codecVars>>

\* MAPPED branch resumed after the write: _set_state(ATTACH_SENT).
_on_session_state_change_mapped ==
    /\ pc["dispatcher"] = "mapped_write"
    /\ SetState(ATTACH_SENT)
    /\ Goto("dispatcher", "sleep")
    /\ UNCHANGED <<is_closed, pending, role, initial_delivery_count,
                   delivery_count, remote_handle, remote_max_message_size,
                   offered_capabilities, properties, session_state,
                   interleaved, creditVars,
                   op, pre, sent, settled, result, codecVars>>

\* DISCARDING branch after the join: the map is emptied, _set_state(DETACHED).
_on_session_state_change_discarding ==
    /\ pc["dispatcher"] = "discarding_join"
    /\ pending' = EmptyPending
    /\ SetState(DiscardingState)
    /\ Goto("dispatcher", "sleep")
    /\ UNCHANGED <<is_closed, role, initial_delivery_count,
                   delivery_count, remote_handle, remote_max_message_size,
                   offered_capabilities, properties, session_state,
                   interleaved, creditVars,
                   op, pre, sent, settled, result, codecVars>>

\* _incoming_attach(frame), up to its first suspension.
_incoming_attach(frame) ==
    /\ MayBegin("dispatcher")
    /\ Enter("dispatcher", frame)
    /\ IF is_closed
       THEN /\ Goto("dispatcher", "done")
            /\ Returns("dispatcher", "raise")
            /\ UNCHANGED <<state, remote_handle, remote_max_message_size,
                           offered_capabilities, properties, settled>>
       ELSE IF ~frame.valid
       THEN /\ NotifyPending("dispatcher")
            /\ Goto("dispatcher", "invalid_attach_join")
            /\ UNCHANGED <<state, remote_handle, remote_max_message_size,
                           offered_capabilities, properties, result>>
       ELSE /\ remote_handle' = frame.handle
            /\ remote_max_message_size' = frame.max_message_size
            /\ offered_capabilities' = frame.offered
            /\ IF UpdateRaises(frame.props)
               THEN /\ Goto("dispatcher", "done")
                    /\ Returns("dispatcher", "raise")
                    /\ UNCHANGED <<state, properties>>
               ELSE /\ properties' = MergedProperties(frame.props)
                    /\ SetState(IncomingAttachState(state))
                    /\ IF state \in {DETACHED, ATTACH_SENT}
                       THEN Goto("dispatcher", "sleep") /\ UNCHANGED result
                       ELSE Goto("dispatcher", "done") /\ Returns("dispatcher", "ok")
            /\ UNCHANGED settled
    /\ UNCHANGED <<is_closed, pending, role, initial_delivery_count,
                   delivery_count, session_state, interleaved, creditVars,
                   sent, codecVars>>

\* _incoming_attach without source or target, after the join: the map is
\* emptied, _set_state(DETACHED); ValueError is raised after the sleep.
_incoming_attach_invalid ==
    /\ pc["dispatcher"] = "invalid_attach_join"
    /\ pending' = EmptyPending
    /\ SetState(InvalidAttachState)
    /\ Returns("dispatcher", "raise")
    /\ Goto("dispatcher", "sleep")
    /\ UNCHANGED <<is_closed, role, initial_delivery_count,
                   delivery_count, remote_handle, remote_max_message_size,
                   offered_capabilities, properties, session_state,
                   interleaved, creditVars, op, pre, sent, settled, codecVars>>

\* _incoming_detach(frame), up to its first suspension.
_incoming_detach(frame) ==
    /\ MayBegin("dispatcher")
    /\ Enter("dispatcher", frame)
    /\ IF state = ATTACHED
       THEN /\ Emit("dispatcher", <<ReciprocalDetach(frame)>>)
            /\ Goto("dispatcher", "reciprocal_write")
            /\ UNCHANGED <<delivery_count, settled>>
       ELSE IF MustReattach(frame)
       THEN /\ _outgoing_attach("dispatcher")
            /\ Goto("dispatcher", "reattach_write")
            /\ UNCHANGED settled
       ELSE /\ NotifyPending("dispatcher")
            /\ Goto("dispatcher", "incoming_detach_join")
            /\ UNCHANGED <<delivery_count, sent>>
    /\ UNCHANGED <<state, is_closed, pending, role, initial_delivery_count,
                   remote_handle, remote_max_message_size,
                   offered_capabilities, properties, session_state,
                   interleaved, creditVars, result, codecVars>>

\* _incoming_detach after the re-attach was written: the closing Detach is
\* handed to the session.
_incoming_detach_closing ==
    /\ pc["dispatcher"] = "reattach_write"
    /\ Emit("dispatcher", <<DetachFrame(TRUE, FALSE)>>)
    /\ Goto("dispatcher", "closing_write")
    /\ UNCHANGED <<linkVars, interleaved, creditVars,
                   op, pre, settled, result, codecVars>>

\* _incoming_detach after its Detach was written: the closed mark of
\* _outgoing_detach, then the notifications of _remove_pending_deliveries.
_incoming_detach_written ==
    /\ pc["dispatcher"] \in {"reciprocal_write", "closing_write"}
    /\ is_closed' = MarkClosed(IF pc["dispatcher"] = "closing_write"
                               THEN TRUE ELSE op["dispatcher"].close)
    /\ NotifyPending("dispatcher")
    /\ Goto("dispatcher", "incoming_detach_join")
    /\ UNCHANGED <<state, pending, role, initial_delivery_count,
                   delivery_count, remote_handle, remote_max_message_size,
                   offered_capabilities, properties, session_state,
                   interleaved, creditVars, op, pre, sent, result, codecVars>>

\* _incoming_detach after the join: the map is emptied and the state set.
_incoming_detach_set_state ==
    /\ pc["dispatcher"] = "incoming_detach_join"
    /\ pending' = EmptyPending
    /\ SetState(IncomingDetachState(op["dispatcher"]))
    /\ Goto("dispatcher", "sleep")
    /\ UNCHANGED <<is_closed, role, initial_delivery_count,
                   delivery_count, remote_handle, remote_max_message_size,
                   offered_capabilities, properties, session_state,
                   interleaved, creditVars,
                   op, pre, sent, settled, result, codecVars>>

\* ------------------------------------------------------------ both tasks
\* The sleep(0) of _set_state is over: the coroutine runs to its end (attach
\* resets _received_payload, which nothing here reads), and returns unless it
\* has an exception to raise.
_set_state_resume(t) ==
    /\ pc[t] = "sleep"
    /\ Goto(t, "done")
    /\ Returns(t, IF result[t] = "none" THEN "ok" ELSE result[t])
    /\ UNCHANGED <<linkVars, interleaved, creditVars,
                   op, pre, sent, settled, codecVars>>

\* The suspension points of attach() and detach(): the session's write, the
\* join of the notification task group, the sleep(0) of _set_state.
CallerSuspensions ==
    {"attach_write", "detach_join", "detach_write_half",
     "detach_write_attached", "sleep"}

\* attach() or detach() is cancelled while suspended: CancelledError is raised
\* at the await, and the rest of the coroutine does not run.
cancel ==
    /\ pc["caller"] \in CallerSuspensions
    /\ op["caller"].name \in {"attach", "detach"}
    /\ Goto("caller", "cancelled")
    /\ Returns("caller", "cancelled")
    /\ UNCHANGED <<linkVars, interleaved, creditVars,
                   op, pre, sent, settled, codecVars>>

\* The task that awaited the operation takes its outcome and is free again.
complete(t) ==
    /\ pc[t] \in {"done", "cancelled"}
    /\ pc' = [pc EXCEPT ![t] = "idle"]
    /\ op' = [op EXCEPT ![t] = NoOp]
    /\ pre' = [pre EXCEPT ![t] = NoSnapshot]
    /\ sent' = [sent EXCEPT ![t] = <<>>]
    /\ settled' = [settled EXCEPT ![t] = {}]
    /\ result' = [result EXCEPT ![t] = "none"]
    /\ UNCHANGED <<linkVars, interleaved, creditVars, codecVars>>

\* The Sender specialisation sends a transfer on an attached link: the
\* delivery joins the pending map, delivery_count advances and one credit is
\* consumed; _evaluate_status follows.
send_transfer(tag) ==
    /\ MayBegin("caller")
    /\ role = Sender
    /\ state = ATTACHED
    /\ tag \notin pending
    /\ delivery_count < initial_delivery_count + MaxTransfers
    /\ Enter("caller", [NoOp EXCEPT !.name = "send_transfer"])
    /\ pending' = pending \cup {tag}
    /\ delivery_count' = delivery_count + 1
    /\ current_link_credit' = current_link_credit - 1
    /\ Goto("caller", "evaluate")
    /\ UNCHANGED <<state, is_closed, role, initial_delivery_count,
                   remote_handle, remote_max_message_size,
                   offered_capabilities, properties, session_state,
                   link_credit, interleaved, sent, settled, result, codecVars>>

\* _evaluate_status(), up to the await of the session's write of the Flow
\* that _outgoing_flow builds.
_evaluate_status ==
    /\ pc["caller"] = "evaluate"
    /\ IF NeedsFlow
       THEN /\ current_link_credit' = link_credit
            /\ Emit("caller", <<FlowFrame(delivery_count, link_credit)>>)
            /\ Goto("caller", "flow_write")
            /\ UNCHANGED result
       ELSE /\ Goto("caller", "done")
            /\ Returns("caller", "ok")
            /\ UNCHANGED <<current_link_credit, sent>>
    /\ UNCHANGED <<linkVars, link_credit, interleaved, op, pre, settled,
                   codecVars>>

\* _evaluate_status resumed after the write of the Flow: it returns.
_evaluate_status_written ==
    /\ pc["caller"] = "flow_write"
    /\ Goto("caller", "done")
    /\ Returns("caller", "ok")
    /\ UNCHANGED <<linkVars, creditVars, interleaved, op, pre, sent, settled,
                   codecVars>>

\* =================================================================== codec
\* A byte window (memoryview) is a sequence of 0..255.  buffer[i:] and
\* buffer[i:j] never raise: they are cut to the window.
From(b, i) == SubSeq(b, i + 1, Len(b))
Slice(b, i, j) == SubSeq(b, i + 1, IF j < Len(b) THEN j ELSE Len(b))

\* Decoded values: one record shape for every Python value.
\*   t      the Python type: "None", "bool", "int", "float", "uuid", "bytes",
\*          "str", "list", "dict"
\*   n      the number (bool, int)
\*   k      the text (str), or the width of an int kept as digits
\*   s      the bytes (bytes, float, uuid; the digits of a wide int)
\*   items  the elements (list)
\*   pairs  the <<key, value>> entries in insertion order (dict)
Val(t, n, k, s, items, pairs) ==
    [t |-> t, n |-> n, k |-> k, s |-> s, items |-> items, pairs |-> pairs]
PyNone == Val("None", 0, "", <<>>, <<>>, <<>>)
PyBool(b) == Val("bool", IF b THEN 1 ELSE 0, "", <<>>, <<>>, <<>>)
PyInt(n) == Val("int", n, "", <<>>, <<>>, <<>>)
PyWide(kind, s) == Val("int", 0, kind, s, <<>>, <<>>)
PyFloat(s) == Val("float", 0, "", s, <<>>, <<>>)
PyUUID(s) == Val("uuid", 0, "", s, <<>>, <<>>)
PyBytes(s) == Val("bytes", 0, "", s, <<>>, <<>>)
PyStr(k) == Val("str", 0, k, <<>>, <<>>, <<>>)
PyList(items) == Val("list", 0, "", <<>>, items, <<>>)
PyDict(pairs) == Val("dict", 0, "", <<>>, <<>>, pairs)
PyTuple(items) == Val("tuple", 0, "", <<>>, items, <<>>)

\* What a decoder returns: (remaining window, value), or the exception raised.
Ok(rest, val) == [err |-> "none", rest |-> rest, val |-> val]
Raise(kind) == [err |-> kind, rest |-> <<>>, val |-> PyNone]

\* _COMPOSITES
_COMPOSITES ==
    [d \in 35..39 |->
        CASE d = 35 -> "received"
          [] d = 36 -> "accepted"
          [] d = 37 -> "rejected"
          [] d = 38 -> "released"
          [] d = 39 -> "modified"]

\* struct.Struct('>B' | '>H' | '>I' | '>L' | '>Q').unpack: big-endian unsigned.
RECURSIVE BigEndian(_)
BigEndian(s) ==
    IF s = <<>> THEN 0
    ELSE BigEndian(SubSeq(s, 1, Len(s) - 1)) * 256 + s[Len(s)]

\* The signed reading of an unsigned number of the given width in bytes.
TwosComplement(n, width) ==
    IF n >= (2 ^ (8 * width - 1)) THEN n - 2 ^ (8 * width) ELSE n

\* Integers of 4 and 8 bytes: a number when the bytes above the low three are
\* zero, else the big-endian digits with the struct format they were read as.
Unpacked(kind, s) ==
    IF \A i \in 1..(Len(s) - 3) : s[i] = 0
    THEN PyInt(BigEndian(s))
    ELSE PyWide(kind, s)

\* A decoder that unpacks `width` bytes with struct: struct.error when the
\* slice is shorter.
Fixed(b, width, val) ==
    IF Len(b) < width THEN Raise("struct.error") ELSE Ok(From(b, width), val)

_decode_null(b) == Ok(b, PyNone)
_decode_true(b) == Ok(b, PyBool(TRUE))
_decode_false(b) == Ok(b, PyBool(FALSE))
_decode_zero(b) == Ok(b, PyInt(0))
_decode_empty(b) == Ok(b, PyList(<<>>))
_decode_boolean(b) == Ok(From(b, 1), PyBool(Slice(b, 0, 1) = <<1>>))
_decode_ubyte(b) ==
    IF b = <<>> THEN Raise("IndexError") ELSE Ok(From(b, 1), PyInt(b[1]))
_decode_ushort(b) == Fixed(b, 2, PyInt(BigEndian(Slice(b, 0, 2))))
_decode_uint_small(b) ==
    IF b = <<>> THEN Raise("IndexError") ELSE Ok(From(b, 1), PyInt(b[1]))
_decode_uint_large(b) == Fixed(b, 4, Unpacked(">I", Slice(b, 0, 4)))
_decode_ulong_small(b) ==
    IF b = <<>> THEN Raise("IndexError") ELSE Ok(From(b, 1), PyInt(b[1]))
_decode_ulong_large(b) == Fixed(b, 8, Unpacked(">Q", Slice(b, 0, 8)))
_decode_byte(b) == Fixed(b, 1, PyInt(TwosComplement(BigEndian(Slice(b, 0, 1)), 1)))
_decode_short(b) == Fixed(b, 2, PyInt(TwosComplement(BigEndian(Slice(b, 0, 2)), 2)))
_decode_int_small(b) == Fixed(b, 1, PyInt(TwosComplement(BigEndian(Slice(b, 0, 1)), 1)))
_decode_int_large(b) == Fixed(b, 4, Unpacked(">i", Slice(b, 0, 4)))
_decode_long_small(b) == Fixed(b, 1, PyInt(TwosComplement(BigEndian(Slice(b, 0, 1)), 1)))
_decode_long_large(b) == Fixed(b, 8, Unpacked(">q", Slice(b, 0, 8)))
_decode_float(b) == Fixed(b, 4, PyFloat(Slice(b, 0, 4)))
_decode_double(b) == Fixed(b, 8, PyFloat(Slice(b, 0, 8)))
_decode_timestamp(b) == Fixed(b, 8, Unpacked(">q", Slice(b, 0, 8)))
_decode_uuid(b) ==
    IF Len(b) < 16 THEN Raise("ValueError")
    ELSE Ok(From(b, 16), PyUUID(Slice(b, 0, 16)))

\* buffer[i:j].tobytes() or None
BytesOrNone(s) == IF s = <<>> THEN PyNone ELSE PyBytes(s)

\* _decode_binary_small, _decode_string_small, _decode_symbol_small
_decode_binary_small(b) ==
    IF b = <<>> THEN Raise("IndexError")
    ELSE LET length == b[1]
         IN Ok(From(b, 1 + length), BytesOrNone(Slice(b, 1, 1 + length)))
_decode_string_small(b) == _decode_binary_small(b)
_decode_symbol_small(b) == _decode_binary_small(b)

\* _decode_binary_large, _decode_string_large, _decode_symbol_large
_decode_binary_large(b) ==
    IF Len(b) < 4 THEN Raise("struct.error")
    ELSE LET length == BigEndian(Slice(b, 0, 4))
         IN Ok(From(b, 4 + length), BytesOrNone(Slice(b, 4, 4 + length)))
_decode_string_large(b) == _decode_binary_large(b)
_decode_symbol_large(b) == _decode_binary_large(b)

\* Python equality of dictionary keys: True == 1 and False == 0.
PyEq(a, b) ==
    IF a.t \in {"bool", "int"} /\ b.t \in {"bool", "int"}
    THEN a.n = b.n /\ a.k = b.k /\ a.s = b.s
    ELSE a = b

\* values[key] = value: an equal key keeps its place and takes the value.
DictSet(pairs, key, val) ==
    IF \E i \in 1..Len(pairs) : PyEq(pairs[i][1], key)
    THEN [i \in 1..Len(pairs) |->
            IF PyEq(pairs[i][1], key) THEN <<pairs[i][1], val>> ELSE pairs[i]]
    ELSE Append(pairs, <<key, val>>)

\* Lists and dictionaries are unhashable: they raise TypeError as keys.
Hashable(v) == v.t \notin {"list", "dict"}

\* The number of passes of `for _ in range(0, count, 2)`.
MapPasses(count) == (count + 1) \div 2

RECURSIVE _DECODE_BY_CONSTRUCTOR(_, _)
RECURSIVE DecodeList(_, _, _)
RECURSIVE DecodeMap(_, _, _)
RECURSIVE DecodeArray(_, _, _, _)

\* _DECODE_BY_CONSTRUCTOR[buffer[0]](buffer[1:]): IndexError on an empty
\* window.
DecodeNext(b) ==
    IF b = <<>> THEN Raise("IndexError")
    ELSE _DECODE_BY_CONSTRUCTOR(b[1], From(b, 1))

\* The loop of _decode_list_small / _decode_list_large.
DecodeList(count, b, values) ==
    IF count = 0 THEN Ok(b, PyList(values))
    ELSE LET r == DecodeNext(b)
         IN IF r.err # "none" THEN r
            ELSE DecodeList(count - 1, r.rest, Append(values, r.val))

\* The loop of _decode_map_small / _decode_map_large: each pass decodes a key
\* and a value.
DecodeMap(passes, b, values) ==
    IF passes = 0 THEN Ok(b, PyDict(values))
    ELSE LET key == DecodeNext(b)
         IN IF key.err # "none" THEN key
            ELSE LET value == DecodeNext(key.rest)
                 IN IF value.err # "none" THEN value
                    ELSE IF ~Hashable(key.val) THEN Raise("TypeError")
                    ELSE DecodeMap(passes - 1, value.rest,
                                   DictSet(values, key.val, value.val))

\* The loop of _decode_array_small / _decode_array_large: the one
\* subconstructor decodes every element.
DecodeArray(count, subconstructor, b, values) ==
    IF count = 0 THEN Ok(b, PyList(values))
    ELSE LET r == _DECODE_BY_CONSTRUCTOR(subconstructor, b)
         IN IF r.err # "none" THEN r
            ELSE DecodeArray(count - 1, subconstructor, r.rest,
                             Append(values, r.val))

_decode_list_small(b) ==
    IF Len(b) < 2 THEN Raise("IndexError")
    ELSE DecodeList(b[2], From(b, 2), <<>>)

_decode_list_large(b) ==
    IF Len(b) < 8 THEN Raise("struct.error")
    ELSE DecodeList(BigEndian(Slice(b, 4, 8)), From(b, 8), <<>>)

_decode_map_small(b) ==
    IF Len(b) < 2 THEN Raise("IndexError")
    ELSE DecodeMap(MapPasses(b[2]), From(b, 2), <<>>)

_decode_map_large(b) ==
    IF Len(b) < 8 THEN Raise("struct.error")
    ELSE DecodeMap(MapPasses(BigEndian(Slice(b, 4, 8))), From(b, 8), <<>>)

_decode_array_small(b) ==
    IF Len(b) < 3 THEN Raise("IndexError")
    ELSE DecodeArray(b[2], b[3], From(b, 3), <<>>)

_decode_array_large(b) ==
    IF Len(b) < 8 THEN Raise("struct.error")
    ELSE IF Len(b) < 9 THEN Raise("IndexError")
    ELSE DecodeArray(BigEndian(Slice(b, 4, 8)), b[9], From(b, 9), <<>>)

\* _decode_described: the window after the body, the byte of it that is looked
\* up in _COMPOSITES, and the value.
CompositeKey(rest) == rest[2]

_decode_described(b) ==
    IF Len(b) < 3 THEN Raise("IndexError")
    ELSE LET r == _DECODE_BY_CONSTRUCTOR(b[3], From(b, 3))
         IN IF r.err # "none" THEN r
            ELSE IF Len(r.rest) < 2 THEN Ok(r.rest, r.val)
            ELSE IF CompositeKey(r.rest) \in DOMAIN _COMPOSITES
            THEN Ok(r.rest, PyDict(<< <<PyStr(_COMPOSITES[CompositeKey(r.rest)]),
                                        r.val>> >>))
            ELSE Ok(r.rest, r.val)

\* The dispatch table; calling an empty slot (None) raises TypeError.
_DECODE_BY_CONSTRUCTOR(code, b) ==
    CASE code = 0 -> _decode_described(b)
      [] code = 64 -> _decode_null(b)
      [] code = 65 -> _decode_true(b)
      [] code = 66 -> _decode_false(b)
      [] code = 67 -> _decode_zero(b)
      [] code = 68 -> _decode_zero(b)
      [] code = 69 -> _decode_empty(b)
      [] code = 80 -> _decode_ubyte(b)
      [] code = 81 -> _decode_byte(b)
      [] code = 82 -> _decode_uint_small(b)
      [] code = 83 -> _decode_ulong_small(b)
      [] code = 84 -> _decode_int_small(b)
      [] code = 85 -> _decode_long_small(b)
      [] code = 86 -> _decode_boolean(b)
      [] code = 96 -> _decode_ushort(b)
      [] code = 97 -> _decode_short(b)
      [] code = 112 -> _decode_uint_large(b)
      [] code = 113 -> _decode_int_large(b)
      [] code = 114 -> _decode_float(b)
      [] code = 128 -> _decode_ulong_large(b)
      [] code = 129 -> _decode_long_large(b)
      [] code = 130 -> _decode_double(b)
      [] code = 131 -> _decode_timestamp(b)
      [] code = 152 -> _decode_uuid(b)
      [] code = 160 -> _decode_binary_small(b)
      [] code = 161 -> _decode_string_small(b)
      [] code = 163 -> _decode_symbol_small(b)
      [] code = 176 -> _decode_binary_large(b)
      [] code = 177 -> _decode_string_large(b)
      [] code = 179 -> _decode_symbol_large(b)
      [] code = 192 -> _decode_list_small(b)
      [] code = 193 -> _decode_map_small(b)
      [] code = 208 -> _decode_list_large(b)
      [] code = 209 -> _decode_map_large(b)
      [] code = 224 -> _decode_array_small(b)
      [] code = 240 -> _decode_array_large(b)
      [] OTHER -> Raise("TypeError")

\* decode_payload: the key a section's descriptor byte selects.
SectionKey(descriptor) ==
    CASE descriptor = 112 -> "header"
      [] descriptor = 113 -> "delivery_annotations"
      [] descriptor = 114 -> "message_annotations"
      [] descriptor = 115 -> "properties"
      [] descriptor = 116 -> "application_properties"
      [] descriptor = 117 -> "data"
      [] descriptor = 118 -> "sequence"
      [] descriptor = 119 -> "value"
      [] descriptor = 120 -> "footer"
      [] OTHER -> ""

\* decode_payload: message[key] = value; "data" appends to its list, which
\* the first occurrence creates; any other descriptor assigns nothing.
SectionSet(message, descriptor, value) ==
    IF SectionKey(descriptor) = "" THEN message
    ELSE IF descriptor = 117
    THEN IF \E i \in 1..Len(message) : message[i][1] = PyStr("data")
         THEN [i \in 1..Len(message) |->
                 IF message[i][1] = PyStr("data")
                 THEN <<message[i][1],
                        PyList(Append(message[i][2].items, value))>>
                 ELSE message[i]]
         ELSE Append(message, <<PyStr("data"), PyList(<<value>>)>>)
    ELSE DictSet(message, PyStr(SectionKey(descriptor)), value)

\* decode_payload: the loop over the sections; buffer[2] and buffer[3] raise
\* IndexError on a window shorter than four bytes.
RECURSIVE decode_payload_loop(_, _)
decode_payload_loop(b, message) ==
    IF b = <<>> THEN Ok(b, PyDict(message))
    ELSE IF Len(b) < 4 THEN Raise("IndexError")
    ELSE LET descriptor == b[3]
             r == _DECODE_BY_CONSTRUCTOR(b[4], From(b, 4))
         IN IF r.err # "none" THEN r
            ELSE decode_payload_loop(r.rest,
                                     SectionSet(message, descriptor, r.val))

decode_payload(b) == decode_payload_loop(b, <<>>)

\* decode_frame: frame_type is data[2], count is data[5], the fields are
\* decoded from data[6:], and a frame of type 20 gets the decoded payload as
\* one more field.  Bytes 0, 1, 3 and 4 are not read.
decode_frame(data) ==
    IF Len(data) < 6 THEN Raise("IndexError")
    ELSE LET frame_type == data[3]
             count == data[6]
             r == DecodeList(count, From(data, 6), <<>>)
         IN IF r.err # "none" THEN r
            ELSE IF frame_type = 20
            THEN LET payload == decode_payload(r.rest)
                 IN IF payload.err # "none" THEN payload
                    ELSE Ok(<<>>, PyTuple(<<PyInt(frame_type),
                                  PyList(Append(r.val.items, payload.val))>>))
            ELSE Ok(<<>>, PyTuple(<<PyInt(frame_type), r.val>>))

\* ----------------------------------------------------------- codec inputs
\* Largest declared length of a binary, string or symbol.
MaxDeclared == 3
\* Largest number of bytes that follow the length in the window.
MaxBody == 2
\* Largest number of bytes that follow a described value in the window.
MaxTrailing == 2

\* All sequences over S of length at most n.
SeqsUpTo(S, n) == UNION {[1..k -> S] : k \in 0..n}

\* k zero bytes.
Zeros(k) == [i \in 1..k |-> 0]

\* Payload bytes: 'a' and 'b'.
PayloadBytes == {97, 98}

\* binary8 / string8 / symbol8 and binary32 / string32 / symbol32 with a
\* declared length and a window that may hold fewer bytes, and windows that
\* end inside the length itself.
VariableInputs ==
    { <<c, n>> \o body :
        c \in {160, 161, 163}, n \in 0..MaxDeclared,
        body \in SeqsUpTo(PayloadBytes, MaxBody) }
    \cup
    { <<c>> \o Zeros(3) \o <<n>> \o body :
        c \in {176, 177, 179}, n \in 0..MaxDeclared,
        body \in SeqsUpTo(PayloadBytes, MaxBody) }
    \cup
    { <<c>> \o Zeros(k) : c \in {160, 176}, k \in 0..3 }

\* Described values 0x00, descriptor (small-ulong 0x53 or small-uint 0x52),
\* body, followed by the bytes of whatever comes next in the window (null,
\* or a ubyte whose value may be 36).
DescribedBodies == {<<65>>, <<80, 7>>, <<161, 1, 97>>, <<69>>}
DescribedInputs ==
    { <<0, dc, d>> \o body \o trailing :
        dc \in {83, 82}, d \in 34..40, body \in DescribedBodies,
        trailing \in SeqsUpTo({64, 80, 36}, MaxTrailing) }

\* Largest entry count a map declares.
MaxMapCount == 3
\* Largest number of encoded values that follow the count in the window.
MaxMapItems == 4

\* One-byte values a map holds: true and uint0.
MapItems == {65, 67}

\* map8 (size byte, count byte) and map32 (four size bytes, four count
\* bytes) declaring `count` entries, followed by the encoded values.
Map8Inputs ==
    { <<193, Len(items) + 1, count>> \o items :
        count \in 0..MaxMapCount, items \in SeqsUpTo(MapItems, MaxMapItems) }
Map32Inputs ==
    { <<209>> \o Zeros(3) \o <<Len(items) + 4>> \o Zeros(3) \o <<count>>
        \o items :
        count \in 0..MaxMapCount, items \in SeqsUpTo(MapItems, MaxMapItems) }
MapInputs == Map8Inputs \cup Map32Inputs

CodecInputs == VariableInputs \cup DescribedInputs \cup MapInputs

\* Largest field count a frame declares, and largest number of one-byte
\* fields that follow it.
MaxFields == 2

\* Bytes 0 and 1 of a frame: the described-type constructor 0x00 or a null,
\* the small-ulong constructor 0x53 or the ulong constructor 0x80.
EnvelopeFirst == {0, 64}
EnvelopeSecond == {83, 128}

\* Performatives: Attach (18) and Transfer (20).
FrameTypes == {18, 20}

\* What follows the fields: nothing, one data section, two data sections, a
\* value section.
Payloads ==
    { <<>>,
      <<0, 83, 117, 160, 1, 97>>,
      <<0, 83, 117, 160, 1, 97, 0, 83, 117, 160, 1, 98>>,
      <<0, 83, 119, 65>> }

\* Frames: envelope, performative code, list8 constructor, size, count, the
\* fields (true or uint0), the payload.
FrameInputs ==
    { <<b0, b1, ft, 192, Len(fields) + Len(payload) + 1, count>>
        \o fields \o payload :
        b0 \in EnvelopeFirst, b1 \in EnvelopeSecond, ft \in FrameTypes,
        count \in 0..MaxFields, fields \in SeqsUpTo(MapItems, MaxFields),
        payload \in Payloads }

\* ------------------------------------------------------------------ Spec
\* No window, nothing decoded.
NoBuffer == <<>>
NotDecoded == [err |-> "not decoded", rest |-> <<>>, val |-> PyNone]

\* A caller (decode_frame's field loop) decodes the value at the head of the
\* window: _DECODE_BY_CONSTRUCTOR[buffer[0]](buffer[1:]).
decode_value ==
    /\ decoded = NotDecoded
    /\ buffer \in CodecInputs
    /\ decoded' = DecodeNext(buffer)
    /\ UNCHANGED <<linkVars, interleaved, creditVars, taskVars, buffer>>

\* The frame dispatcher decodes the frame in the window: decode_frame(data).
call_decode_frame ==
    /\ decoded = NotDecoded
    /\ buffer \in FrameInputs
    /\ decoded' = decode_frame(buffer)
    /\ UNCHANGED <<linkVars, interleaved, creditVars, taskVars, buffer>>

\* The codec alone: a window from the input sets, a link that is never used.
InitDecode ==
    /\ state = DETACHED
    /\ is_closed = FALSE
    /\ pending = {}
    /\ role = Receiver
    /\ initial_delivery_count = 0
    /\ delivery_count = 0
    /\ remote_handle = None
    /\ remote_max_message_size = None
    /\ offered_capabilities = None
    /\ properties = None
    /\ session_state = UNMAPPED
    /\ link_credit = DEFAULT_LINK_CREDIT
    /\ current_link_credit = link_credit
    /\ InitTasks
    /\ interleaved = FALSE
    /\ buffer \in CodecInputs \cup FrameInputs
    /\ decoded = NotDecoded

NextDecode == decode_value \/ call_decode_frame

SpecDecode == InitDecode /\ [][NextDecode]_vars


Init ==
    /\ InitLink
    /\ InitTasks
    /\ interleaved = FALSE
    /\ buffer = NoBuffer
    /\ decoded = NotDecoded

Next ==
    \/ attach
    \/ attach_set_state
    \/ \E close \in BOOLEAN, error \in BOOLEAN : detach(close, error)
    \/ detach_send
    \/ detach_set_state
    \/ cancel
    \/ \E s \in SessionState : _on_session_state_change(s)
    \/ _on_session_state_change_mapped
    \/ _on_session_state_change_discarding
    \/ \E frame \in IncomingAttachFrames : _incoming_attach(frame)
    \/ _incoming_attach_invalid
    \/ \E frame \in IncomingDetachFrames : _incoming_detach(frame)
    \/ _incoming_detach_closing
    \/ _incoming_detach_written
    \/ _incoming_detach_set_state
    \/ \E t \in Tasks : _set_state_resume(t)
    \/ \E t \in Tasks : complete(t)
    \/ \E tag \in Tags : send_transfer(tag)
    \/ _evaluate_status
    \/ _evaluate_status_written

Spec == Init /\ [][Next]_vars

\* ------------------------------------------------------ interleaved tasks
\* The caller task and the incoming-dispatcher task overlap: each begins an
\* operation whenever it runs none, and a suspended coroutine resumes in any
\* order with the other task's steps.  One Sender that sends no transfer and
\* detaches without an error, and a peer that announces one handle and no
\* attributes.
ConcAttachFrames ==
    { f \in IncomingAttachFrames :
        f.handle = Some(1) /\ f.max_message_size = None /\ f.props = None }

InitConc ==
    /\ state = DETACHED
    /\ is_closed = FALSE
    /\ pending = {}
    /\ role = Sender
    /\ initial_delivery_count = SenderInitialCount
    /\ delivery_count = initial_delivery_count
    /\ remote_handle = None
    /\ remote_max_message_size = None
    /\ offered_capabilities = None
    /\ properties = None
    /\ session_state = UNMAPPED
    /\ link_credit = CreditOrDefault(None)
    /\ current_link_credit = link_credit
    /\ InitTasks
    /\ interleaved = TRUE
    /\ buffer = NoBuffer
    /\ decoded = NotDecoded

NextConc ==
    \/ attach
    \/ attach_set_state
    \/ \E close \in BOOLEAN : detach(close, FALSE)
    \/ detach_send
    \/ detach_set_state
    \/ cancel
    \/ \E s \in SessionState : _on_session_state_change(s)
    \/ _on_session_state_change_mapped
    \/ _on_session_state_change_discarding
    \/ \E frame \in ConcAttachFrames : _incoming_attach(frame)
    \/ _incoming_attach_invalid
    \/ \E frame \in IncomingDetachFrames : _incoming_detach(frame)
    \/ _incoming_detach_closing
    \/ _incoming_detach_written
    \/ _incoming_detach_set_state
    \/ \E t \in Tasks : _set_state_resume(t)
    \/ \E t \in Tasks : complete(t)

SpecConc == InitConc /\ [][NextConc]_vars


\* ================================================================ claims
\* No operation of the link is in progress.
AtRest == \A t \in Tasks : pc[t] \in {"idle", "done"}

\* Task t has just finished the operation `name`.
Done(t, name) == pc[t] = "done" /\ op[t].name = name

\* The notifications of one pass over the deliveries ds.
NotDeliveredTo(ds) == {<<d, NotDelivered>> : d \in ds}

\* Some task hands an Attach frame to the session in this step.
EmitsAttach ==
    \E t \in Tasks :
        /\ Len(sent'[t]) > Len(sent[t])
        /\ sent'[t][Len(sent'[t])].type = "Attach"

\* C1: once the link's state is ERROR it stays ERROR, and no step taken from
\* ERROR changes the state or hands an Attach frame to the session.
C1_ErrorIsTerminal ==
    [][state = ERROR => (state' = ERROR /\ ~EmitsAttach)]_vars

\* C2 as stated: at rest, a closed link is DETACHED or in ERROR.
C2_ClosedIsDetachedOrError ==
    (AtRest /\ is_closed) => state \in {DETACHED, ERROR}

\* C2 as amended: at rest, a closed link is DETACHED, in ERROR, or in
\* ATTACH_SENT (the half-closed handshake detach(close=True) leaves behind).
C2_ClosedAtRest ==
    (AtRest /\ is_closed) => state \in {DETACHED, ERROR, ATTACH_SENT}

C2_Witness == AtRest /\ is_closed /\ state = ATTACH_SENT

\* C3: attach() called in ATTACH_RCVD sends an Attach frame and leaves the
\* link ATTACHED.
C3_AttachFromAttachRcvd ==
    (Done("caller", "attach") /\ pre["caller"].state = ATTACH_RCVD)
        => /\ Len(sent["caller"]) = 1
           /\ sent["caller"][1].type = "Attach"
           /\ state = ATTACHED

\* C4: at rest, a link that is DETACHED or in ERROR has no pending delivery.
C4_NoPendingWhenDetached ==
    (AtRest /\ state \in {DETACHED, ERROR}) => pending = {}

C4_Witness ==
    /\ Done("dispatcher", "_incoming_detach")
    /\ pre["dispatcher"].pending # {}
    /\ state = ERROR
    /\ pending = {}

\* C5: an incoming Detach(closed=true) without error, met in ATTACH_SENT or
\* ATTACH_RCVD by a link that is not closed, makes the link emit an Attach and
\* then a Detach(closed=true) and nothing else, notify and clear the pending
\* deliveries, and end DETACHED and closed.
C5_ClosingDetachWhileHalfAttached ==
    ( /\ Done("dispatcher", "_incoming_detach")
      /\ op["dispatcher"].close
      /\ ~op["dispatcher"].error
      /\ pre["dispatcher"].state \in {ATTACH_SENT, ATTACH_RCVD}
      /\ ~pre["dispatcher"].is_closed )
        => /\ Len(sent["dispatcher"]) = 2
           /\ sent["dispatcher"][1].type = "Attach"
           /\ sent["dispatcher"][2] = DetachFrame(TRUE, FALSE)
           /\ settled["dispatcher"] = NotDeliveredTo(pre["dispatcher"].pending)
           /\ pending = {}
           /\ state = DETACHED
           /\ is_closed

C5_Witness ==
    /\ Done("dispatcher", "_incoming_detach")
    /\ op["dispatcher"].close
    /\ ~op["dispatcher"].error
    /\ pre["dispatcher"].state = ATTACH_RCVD
    /\ ~pre["dispatcher"].is_closed
    /\ Len(sent["dispatcher"]) = 2

\* C6: detach(close=True) on a link that is ATTACHED and not closed emits one
\* Detach(closed=true), notifies every pending delivery with NotDelivered,
\* empties the pending map and leaves state = ATTACH_SENT, is_closed = true.
C6_ClosingDetachFromAttached ==
    ( /\ Done("caller", "detach")
      /\ op["caller"].close
      /\ pre["caller"].state = ATTACHED
      /\ ~pre["caller"].is_closed )
        => /\ sent["caller"] = <<DetachFrame(TRUE, op["caller"].error)>>
           /\ settled["caller"] = NotDeliveredTo(pre["caller"].pending)
           /\ pending = {}
           /\ state = ATTACH_SENT
           /\ is_closed
           /\ result["caller"] = "ok"

C6_Witness ==
    /\ Done("caller", "detach")
    /\ op["caller"].close
    /\ pre["caller"].state = ATTACHED
    /\ Cardinality(pre["caller"].pending) = 2
    /\ state = ATTACH_SENT

\* C9: an incoming Attach without source or target on a link that is not
\* closed raises, clears the pending deliveries and leaves the link DETACHED
\* whatever the state was, with no frame emitted and remote_handle not
\* recorded; on a closed link an incoming Attach raises and leaves the state,
\* the pending map and the recorded remote attributes as they were.
C9_IncomingAttachRejected ==
    /\ ( /\ Done("dispatcher", "_incoming_attach")
         /\ ~op["dispatcher"].valid
         /\ ~pre["dispatcher"].is_closed )
         => /\ result["dispatcher"] = "raise"
            /\ settled["dispatcher"] = NotDeliveredTo(pre["dispatcher"].pending)
            /\ pending = {}
            /\ state = DETACHED
            /\ sent["dispatcher"] = <<>>
            /\ remote_handle = pre["dispatcher"].remote_handle
    /\ ( /\ Done("dispatcher", "_incoming_attach")
         /\ pre["dispatcher"].is_closed )
         => /\ result["dispatcher"] = "raise"
            /\ sent["dispatcher"] = <<>>
            /\ settled["dispatcher"] = {}
            /\ state = pre["dispatcher"].state
            /\ pending = pre["dispatcher"].pending
            /\ remote_handle = pre["dispatcher"].remote_handle
            /\ remote_max_message_size = pre["dispatcher"].remote_max_message_size
            /\ offered_capabilities = pre["dispatcher"].offered_capabilities
            /\ properties = pre["dispatcher"].properties

C9_Witness ==
    /\ Done("dispatcher", "_incoming_attach")
    /\ ~op["dispatcher"].valid
    /\ pre["dispatcher"].state = ATTACHED
    /\ pre["dispatcher"].pending # {}
    /\ pre["dispatcher"].remote_handle # op["dispatcher"].handle
    /\ state = DETACHED

\* C10: an incoming Detach met in ATTACHED makes the link emit one Detach
\* whose closed flag is the incoming one, clear the pending deliveries and end
\* in ERROR when the frame carries an error and DETACHED otherwise; is_closed
\* is true afterwards exactly when the incoming frame was closing.
C10_IncomingDetachWhileAttached ==
    ( /\ Done("dispatcher", "_incoming_detach")
      /\ pre["dispatcher"].state = ATTACHED )
        => /\ Len(sent["dispatcher"]) = 1
           /\ sent["dispatcher"][1].type = "Detach"
           /\ sent["dispatcher"][1].closed = op["dispatcher"].close
           /\ settled["dispatcher"] = NotDeliveredTo(pre["dispatcher"].pending)
           /\ pending = {}
           /\ state = (IF op["dispatcher"].error THEN ERROR ELSE DETACHED)
           /\ is_closed = op["dispatcher"].close

C10_Witness ==
    /\ Done("dispatcher", "_incoming_detach")
    /\ pre["dispatcher"].state = ATTACHED
    /\ pre["dispatcher"].pending # {}
    /\ ~op["dispatcher"].close
    /\ op["dispatcher"].error
    /\ state = ERROR
    /\ ~is_closed

\* C11: a valid incoming Attach (source and target present) on a link that is
\* not closed records remote_handle and remote_max_message_size from the
\* frame, and moves DETACHED to ATTACH_RCVD and ATTACH_SENT to ATTACHED; from
\* every other state the state is left as it was.
C11_ValidIncomingAttach ==
    ( /\ Done("dispatcher", "_incoming_attach")
      /\ op["dispatcher"].valid
      /\ ~pre["dispatcher"].is_closed )
        => /\ remote_handle = op["dispatcher"].handle
           /\ remote_max_message_size = op["dispatcher"].max_message_size
           /\ state = IncomingAttachState(pre["dispatcher"].state)

\* C12: a session-MAPPED notification emits one Attach and moves the link to
\* ATTACH_SENT exactly when the link is DETACHED and not closed (a Sender's
\* Attach carries its initial_delivery_count, a Receiver's carries none);
\* otherwise it emits nothing and leaves state, is_closed and delivery_count
\* as they were.
C12_SessionMapped ==
    ( /\ Done("dispatcher", "_on_session_state_change")
      /\ session_state = MAPPED )
        => IF pre["dispatcher"].state = DETACHED /\ ~pre["dispatcher"].is_closed
           THEN /\ Len(sent["dispatcher"]) = 1
                /\ sent["dispatcher"][1].type = "Attach"
                /\ sent["dispatcher"][1].initial_delivery_count =
                       (IF role = Sender THEN Some(initial_delivery_count)
                        ELSE None)
                /\ state = ATTACH_SENT
           ELSE /\ sent["dispatcher"] = <<>>
                /\ state = pre["dispatcher"].state
                /\ is_closed = pre["dispatcher"].is_closed
                /\ delivery_count = pre["dispatcher"].delivery_count

C12_Witness ==
    /\ Done("dispatcher", "_on_session_state_change")
    /\ session_state = MAPPED
    /\ pre["dispatcher"].state = DETACHED
    /\ role = Sender
    /\ sent["dispatcher"] # <<>>
    /\ sent["dispatcher"][1].initial_delivery_count = Some(SenderInitialCount)
    /\ state = ATTACH_SENT

\* The notification arrives on a closed, DETACHED link and emits nothing.
C12_WitnessClosed ==
    /\ Done("dispatcher", "_on_session_state_change")
    /\ session_state = MAPPED
    /\ pre["dispatcher"].state = DETACHED
    /\ pre["dispatcher"].is_closed
    /\ sent["dispatcher"] = <<>>


\* C13: when the session becomes DISCARDING, from any link state, every
\* pending delivery is notified and the pending map is emptied, the link state
\* becomes DETACHED, and no frame is emitted.
C13_SessionDiscarding ==
    ( /\ Done("dispatcher", "_on_session_state_change")
      /\ session_state = DISCARDING )
        => /\ settled["dispatcher"] = NotDeliveredTo(pre["dispatcher"].pending)
           /\ pending = {}
           /\ state = DETACHED
           /\ sent["dispatcher"] = <<>>

C13_Witness ==
    /\ Done("dispatcher", "_on_session_state_change")
    /\ session_state = DISCARDING
    /\ pre["dispatcher"].state = ATTACHED
    /\ Cardinality(pre["dispatcher"].pending) = 2
    /\ Cardinality(settled["dispatcher"]) = 2
    /\ state = DETACHED

\* The suspension at the join of the notification task group.
JoinPoints ==
    {"detach_join", "discarding_join", "invalid_attach_join",
     "incoming_detach_join"}

\* Task t takes a step of its coroutine.
Steps(t) == pc'[t] # pc[t]

\* C14: on every path that moves the link to DETACHED or ERROR, every pending
\* delivery has been notified with NotDelivered before the step that makes
\* the new state visible, and the pending map is emptied only by a task that
\* has dispatched the notifications of all its entries and passed the join.
C14_NotifiedBeforeStateFlip ==
    [][ /\ (state' # state /\ state' \in {DETACHED, ERROR})
            => \E t \in Tasks :
                  /\ Steps(t)
                  /\ NotDeliveredTo(pending) \subseteq settled[t]
        /\ (pending # {} /\ pending' = {})
            => \E t \in Tasks :
                  /\ Steps(t)
                  /\ pc[t] \in JoinPoints
                  /\ NotDeliveredTo(pending) \subseteq settled[t] ]_vars

\* The notifications were dispatched; the map is not yet emptied, the state
\* not yet changed.
C14_Witness ==
    /\ pc["dispatcher"] = "incoming_detach_join"
    /\ op["dispatcher"].error
    /\ state = ATTACHED
    /\ Cardinality(pending) = 2
    /\ settled["dispatcher"] = NotDeliveredTo(pending)

\* C15: when detach(close=True) is cancelled at a suspension point after its
\* Detach frame was handed to the session, the link is marked closed.
C15_CancelledDetachIsClosed ==
    ( /\ pc["caller"] = "cancelled"
      /\ op["caller"].name = "detach"
      /\ op["caller"].close
      /\ sent["caller"] # <<>> )
        => is_closed

\* The caller task is past the test of _evaluate_status.
Evaluated ==
    /\ op["caller"].name = "send_transfer"
    /\ pc["caller"] \in {"flow_write", "done"}

\* C16: after every pass of _evaluate_status, current_link_credit is not
\* negative, whatever link_credit the constructor accepted and whatever the
\* credit was before the pass.
C16_CreditNotNegative ==
    Evaluated => current_link_credit >= 0

\* The step of the caller task that runs _evaluate_status up to its await or
\* its return.
EvaluateStep == pc["caller"] = "evaluate" /\ pc'["caller"] # "evaluate"

\* C17: _evaluate_status emits a Flow exactly when current_link_credit is
\* <= 0 on entry: it resets current_link_credit to link_credit and the Flow
\* carries the link's handle, the link's delivery_count and the configured
\* link_credit; with a positive credit nothing is emitted and the credit is
\* left as it is.
C17_FlowWhenCreditExhausted ==
    [][ EvaluateStep =>
          IF current_link_credit <= 0
          THEN /\ current_link_credit' = link_credit
               /\ Len(sent'["caller"]) = Len(sent["caller"]) + 1
               /\ LET flow == sent'["caller"][Len(sent'["caller"])]
                  IN /\ flow.type = "Flow"
                     /\ flow.handle = LocalHandle
                     /\ flow.delivery_count = delivery_count
                     /\ flow.link_credit = link_credit
          ELSE /\ sent' = sent
               /\ current_link_credit' = current_link_credit ]_vars

\* A transfer consumed the last credit and the Flow was written.
C17_Witness ==
    /\ Done("caller", "send_transfer")
    /\ pre["caller"].current_link_credit = 1
    /\ link_credit = DEFAULT_LINK_CREDIT
    /\ delivery_count = initial_delivery_count + 1
    /\ sent["caller"] = <<FlowFrame(delivery_count, link_credit)>>
    /\ current_link_credit = link_credit

\* A transfer left credit and nothing was written.
C17_WitnessPositive ==
    /\ Done("caller", "send_transfer")
    /\ current_link_credit > 0
    /\ current_link_credit < link_credit
    /\ sent["caller"] = <<>>

\* A valid peer Attach was processed while the local attach() was suspended
\* on the write of its Attach frame, and both operations have completed:
\* both tasks ran nothing else in between.
AttachesCrossed ==
    /\ Done("caller", "attach")
    /\ result["caller"] = "ok"
    /\ Done("dispatcher", "_incoming_attach")
    /\ op["dispatcher"].valid
    /\ result["dispatcher"] = "ok"
    /\ pre["dispatcher"].tasks["caller"] = "attach_write"

\* C20: with the two tasks interleaving at suspension points, when a valid
\* peer Attach is processed while a local attach() is suspended between the
\* hand-over of its Attach frame and the setting of its state, the link is
\* ATTACHED once both operations have completed.
C20_CrossedAttachesAttach ==
    AttachesCrossed => state = ATTACHED

\* A Detach frame with closed=true.
IsClosingDetach(f) == f.type = "Detach" /\ f.closed

\* A closing Detach is among the frames that the operations now in progress
\* (or just finished) have handed to the session.
ClosingDetachSent ==
    \E t \in Tasks : \E i \in 1..Len(sent[t]) : IsClosingDetach(sent[t][i])

\* Some task hands a closing Detach to the session in this step.
EmitsClosingDetach ==
    \E t \in Tasks :
        /\ Len(sent'[t]) > Len(sent[t])
        /\ IsClosingDetach(sent'[t][Len(sent'[t])])

\* The three parts of C21, each about one step of either task.
AtMostOneClosingDetach == EmitsClosingDetach => ~ClosingDetachSent
NoAttachAfterClosingDetach == EmitsAttach => ~ClosingDetachSent
ClosedStaysClosed == is_closed => is_closed'

\* C21: under every interleaving of the caller task and the dispatcher task
\* at suspension points, no step hands a second Detach with closed=true to
\* the session, no step hands an Attach to the session after a closing
\* Detach, and is_closed, once true, never becomes false.
C21_OneClosingDetach ==
    [][/\ AtMostOneClosingDetach
       /\ NoAttachAfterClosingDetach
       /\ ClosedStaysClosed]_vars


\* ---------------------------------------------------------- codec claims
\* The window holds a described value: 0x00, a descriptor, a body.
Described == decoded # NotDecoded /\ buffer \in DescribedInputs

\* The descriptor and the body of the described value in the window, each
\* decoded by its own constructor.
DescriptorOf(b) == DecodeNext(From(b, 1))
BodyOf(b) == DecodeNext(DescriptorOf(b).rest)

\* C7: a described value whose descriptor is a small-ulong (0x53) in 35..39
\* decodes to the mapping {name: body}, whatever follows it in the window;
\* with any other descriptor it decodes to the body.
C7_DescribedComposite ==
    Described =>
        /\ decoded.err = "none"
        /\ decoded.val =
             IF buffer[2] = 83 /\ DescriptorOf(buffer).val.n \in DOMAIN _COMPOSITES
             THEN PyDict(<< <<PyStr(_COMPOSITES[DescriptorOf(buffer).val.n]),
                              BodyOf(buffer).val>> >>)
             ELSE BodyOf(buffer).val

\* The window of a binary, string or symbol holds fewer bytes than the
\* length it declares.
Truncated ==
    /\ decoded # NotDecoded
    /\ \/ /\ buffer[1] \in {160, 161, 163}
          /\ Len(buffer) >= 2
          /\ buffer[2] > Len(buffer) - 2
       \/ /\ buffer[1] \in {176, 177, 179}
          /\ Len(buffer) >= 5
          /\ BigEndian(Slice(buffer, 1, 5)) > Len(buffer) - 5

\* C8: decoding a binary, string or symbol from a window shorter than the
\* declared length is a decode error, and no value is returned.
C8_TruncatedIsError ==
    Truncated => decoded.err # "none"

\* The window holds a map; the entry count it declares and the number of
\* bytes before its first encoded value.
MapDecoded == decoded # NotDecoded /\ buffer \in MapInputs
MapHeader == IF buffer[1] = 193 THEN 3 ELSE 9
DeclaredCount == buffer[MapHeader]

\* The one-byte values the decoder consumed after the map's header.
ItemsConsumed == Len(buffer) - MapHeader - Len(decoded.rest)

\* C18: decoding a map8 or map32 whose declared entry count is odd is a
\* decode error, and a map that decodes never consumes more values than the
\* count it declares.
C18_OddMapCountIsError ==
    /\ (MapDecoded /\ DeclaredCount % 2 = 1) => decoded.err # "none"
    /\ (MapDecoded /\ decoded.err = "none") => ItemsConsumed <= DeclaredCount

\* The window holds a frame and decode_frame has returned or raised.
FrameDecoded == decoded # NotDecoded /\ buffer \in FrameInputs

\* C19: decode_frame rejects with an error, and produces no frame for, every
\* input whose byte 0 is not 0x00 or whose byte 1 is not 0x53.
C19_EnvelopeChecked ==
    (FrameDecoded /\ (buffer[1] # 0 \/ buffer[2] # 83))
        => decoded.err # "none"

====
